---- MODULE Spec2Model ----
(***************************************************************************)
(* MemoryEngine backend: users, the page hierarchy, page share grants,     *)
(* the access evaluator and the tree listing, as a state machine over the  *)
(* relational store (tables users, pages, page_shares).                    *)
(*                                                                         *)
(* Identifiers are UUIDs in the program.  Here they are positive integers  *)
(* handed out by counters, so an identifier is never used twice; 0 stands  *)
(* for NULL.  Strings that the program converts (titles, e-mails) are      *)
(* sequences of code points, so that strip / lower / casefold are          *)
(* computed and not assumed.                                               *)
(***************************************************************************)
EXTENDS Integers, Sequences, FiniteSets, TLC

\* ------------------------------------------------------------------ bounds
\* users ever registered, pages ever created, grants ever inserted, and
\* pages and grants together
MaxUsers == 2
MaxPages == 3
MaxShares == 2
MaxRows == 4
\* share_page calls that run at the same time, and the pages they run over
MaxCalls == 2
MaxConcPages == 1
\* pages stored where update_page calls run at the same time
MaxMovePages == 2
\* pages stored where titles and contents are edited
MaxTextPages == 2
\* users, pages and grants stored where the admin requests are served
MaxAdminUsers == 3
MaxAdminPages == 2
MaxAdminShares == 1
\* pages stored where two long chains are built, and the page that starts
\* the second chain
MaxDeepPages == 101
DeepSplit == 51

\* ------------------------------------------------------- program constants
max_depth == 100

NULL == 0

\* request inputs also range over one identifier that is never allocated
UserIdInputs == 1..(MaxUsers + 1)
PageIdInputs == 1..(MaxPages + 1)

PermissionLevel == {"view_only", "edit"}
UserRole == {"admin", "user"}
RequiredPageAccess == {"view", "edit", "owner"}

\* titles " " and " a"  (code points: space 32, a 97)
TitleInputs == {<<32>>, <<32, 97>>}
ContentInputs == {"null"}
\* registration payloads (email, username): ("A","x"), (" b","y"), ("a","y")
RegisterInputs ==
    {[email |-> <<65>>, username |-> <<120>>],
     [email |-> <<32, 98>>, username |-> <<121>>],
     [email |-> <<97>>, username |-> <<121>>]}

\* POST /api/admin/users payloads (email, username, role): ("c","z") as
\* admin or user, and ("a","z"), whose email registration may have taken
AdminCreateInputs ==
    {[email |-> <<99>>, username |-> <<122>>, role |-> "admin"],
     [email |-> <<99>>, username |-> <<122>>, role |-> "user"],
     [email |-> <<97>>, username |-> <<122>>, role |-> "user"]}
AdminUserIdInputs == 1..(MaxAdminUsers + 1)
AdminPageIdInputs == 1..(MaxAdminPages + 1)

\* PUT /api/pages/{id} payloads: which fields are set, and their values
\* (title_null: the field is present and null)
UpdateInputs ==
    {u \in [has_title : BOOLEAN, title_null : BOOLEAN, title : TitleInputs,
            has_content : BOOLEAN, content : ContentInputs,
            has_parent : BOOLEAN, parent_id : {NULL} \cup PageIdInputs] :
        /\ (~ u.has_title \/ u.title_null) => u.title = <<32, 97>>
        /\ u.title_null => u.has_title
        /\ ~ u.has_content => u.content = "null"
        /\ ~ u.has_parent => u.parent_id = NULL
        \* content alone; a title with a parent_id only when it is valid
        /\ u.has_content => ~ (u.has_title \/ u.has_parent)
        /\ (u.has_title /\ u.has_parent) => u.title = <<32, 97>> /\ ~ u.title_null}

\* the page ids requests name where titles and contents are edited
TextPageIdInputs == 1..(MaxTextPages + 1)

\* titles and contents that differ from each other: "a", "B", and content
\* "c" next to no content
TextTitleInputs == {<<97>>, <<66>>}
TextContentInputs == {"null", "c"}

\* update payloads over them: a title, a content, both, a parent_id, a
\* content with a parent_id, a blank title " " alone or with a parent_id
TextUpdateInputs ==
    {u \in [has_title : BOOLEAN, title_null : {FALSE},
            title : TextTitleInputs \cup {<<32>>},
            has_content : BOOLEAN, content : TextContentInputs,
            has_parent : BOOLEAN, parent_id : {NULL} \cup TextPageIdInputs] :
        /\ ~ u.has_title => u.title = <<97>>
        /\ ~ u.has_content => u.content = "null"
        /\ ~ u.has_parent => u.parent_id = NULL
        /\ u.has_title \/ u.has_content \/ u.has_parent
        /\ (u.has_parent /\ u.has_title) => (u.title = <<32>> /\ ~ u.has_content)
        /\ (u.has_title /\ u.title = <<32>>) => ~ u.has_content}

VARIABLES
    users,      \* table users: id -> [email, username, role]
    pages,      \* table pages: id -> [user_id, parent_id, title, content]
    shares,     \* table page_shares: a set of rows
    nextUser,   \* the identifiers the next inserted rows get
    nextPage,
    nextShare,
    resp,       \* the response being sent to the client, if any
    calls       \* the calls in progress, one per database session

vars == <<users, pages, shares, nextUser, nextPage, nextShare, resp, calls>>

\* ------------------------------------------------------------ string model
IsSpace(c) == c = 32

RECURSIVE LStrip(_)
LStrip(s) ==
    IF s = <<>> THEN <<>>
    ELSE IF IsSpace(Head(s)) THEN LStrip(Tail(s)) ELSE s

RECURSIVE RStrip(_)
RStrip(s) ==
    IF s = <<>> THEN <<>>
    ELSE IF IsSpace(s[Len(s)]) THEN RStrip(SubSeq(s, 1, Len(s) - 1)) ELSE s

\* str.strip()
Strip(s) == RStrip(LStrip(s))

\* str.lower() / str.casefold() on ASCII letters
LowerChar(c) == IF c >= 65 /\ c <= 90 THEN c + 32 ELSE c
Lower(s) == [i \in 1..Len(s) |-> LowerChar(s[i])]
CaseFold(s) == [i \in 1..Len(s) |-> LowerChar(s[i])]

\* lexicographic order of two code point sequences
RECURSIVE StrLess(_, _)
StrLess(a, b) ==
    IF b = <<>> THEN FALSE
    ELSE IF a = <<>> THEN TRUE
    ELSE IF Head(a) < Head(b) THEN TRUE
    ELSE IF Head(a) > Head(b) THEN FALSE
    ELSE StrLess(Tail(a), Tail(b))

\* ------------------------------------------------------------------- state
\* a response: the request it answers (operation, caller, arguments) with
\* the HTTP status and the error detail
Resp(op, caller, args, r) ==
    [op |-> op, caller |-> caller, args |-> args,
     status |-> r.status, detail |-> r.detail]

NoResp == [op |-> "none", caller |-> NULL, args |-> <<>>, status |-> 0, detail |-> ""]

\* a share_page call: not started, or past its SELECT with the rows it found
Sessions == 1..MaxCalls
NoCall == [pc |-> "idle", owner_id |-> NULL, page_id |-> NULL,
           shared_with_user_id |-> NULL, permission_level |-> "null",
           existing |-> {}]

Init ==
    /\ users = <<>>
    /\ pages = <<>>
    /\ shares = {}
    /\ nextUser = 1
    /\ nextPage = 1
    /\ nextShare = 1
    /\ resp = NoResp
    /\ calls = [k \in Sessions |-> NoCall]

\* rows of a table with one row removed / replaced
Without(f, ks) == [k \in (DOMAIN f) \ ks |-> f[k]]
With(f, k, v) == [j \in (DOMAIN f) \cup {k} |-> IF j = k THEN v ELSE f[j]]


\* ------------------------------------------------- tables and constraints
PageRow(user_id, parent_id, title, content) ==
    [user_id |-> user_id, parent_id |-> parent_id, title |-> title, content |-> content]

ShareRow(id, page_id, owner_id, shared_with_user_id, permission_level) ==
    [id |-> id, page_id |-> page_id, owner_id |-> owner_id,
     shared_with_user_id |-> shared_with_user_id,
     permission_level |-> permission_level]

\* SELECT parent_id FROM pages WHERE id = pid  (NULL when no row is found)
ParentOf(pgs, pid) == IF pid \in DOMAIN pgs THEN pgs[pid].parent_id ELSE NULL

\* the WHILE loop of the trigger: "cycle", "depth" or "ok"
RECURSIVE HierarchyWalk(_, _, _, _)
HierarchyWalk(pgs, new_id, current_parent_id, depth) ==
    IF current_parent_id # NULL /\ depth < max_depth
    THEN IF current_parent_id = new_id
         THEN "cycle"
         ELSE HierarchyWalk(pgs, new_id, ParentOf(pgs, current_parent_id), depth + 1)
    ELSE IF depth >= max_depth THEN "depth" ELSE "ok"

\* the trigger without its upward walk (only the self-parent test is left)
SelfOnly_check_page_hierarchy_cycle(pgs, new_id, new_parent_id) ==
    new_parent_id = NULL \/ new_id # new_parent_id

\* trigger check_page_cycle, BEFORE INSERT OR UPDATE ON pages, for row
\* (new_id, new_parent_id) against the table pgs: TRUE when the row passes
check_page_hierarchy_cycle(pgs, new_id, new_parent_id) ==
    IF new_parent_id = NULL THEN TRUE
    ELSE IF new_id = new_parent_id THEN FALSE
    ELSE HierarchyWalk(pgs, new_id, new_parent_id, 0) = "ok"

\* CHECK (id != parent_id)
no_self_reference(new_id, new_parent_id) == new_id # new_parent_id

\* the constraints a pages row must pass to be written: both foreign keys,
\* the check constraint and the trigger
PageRowAccepted(usrs, pgs, new_id, row) ==
    /\ row.user_id \in DOMAIN usrs
    /\ row.parent_id # NULL => row.parent_id \in DOMAIN pgs
    /\ no_self_reference(new_id, row.parent_id)
    /\ check_page_hierarchy_cycle(pgs, new_id, row.parent_id)

\* the table without its unique constraint
Absent_unique_page_share(shs, row) == TRUE

\* UNIQUE (page_id, shared_with_user_id)
unique_page_share(shs, row) ==
    ~ \E s \in shs : /\ s.id # row.id
                     /\ s.page_id = row.page_id
                     /\ s.shared_with_user_id = row.shared_with_user_id

\* CHECK (owner_id != shared_with_user_id)
no_self_share(row) == row.owner_id # row.shared_with_user_id

\* the constraints a page_shares row must pass to be written
ShareRowAccepted(usrs, pgs, shs, row) ==
    /\ row.page_id \in DOMAIN pgs
    /\ row.owner_id \in DOMAIN usrs
    /\ row.shared_with_user_id \in DOMAIN usrs
    /\ unique_page_share(shs, row)
    /\ no_self_share(row)

\* a store that removes the named row and nothing below it
OnlyRow_CascadePages(pgs, gone) == gone

\* ON DELETE CASCADE of pages.parent_id: every page whose parent chain
\* enters the deleted set goes with it
RECURSIVE CascadePages(_, _)
CascadePages(pgs, gone) ==
    LET more == {q \in DOMAIN pgs : pgs[q].parent_id \in gone} \ gone
    IN  IF more = {} THEN gone ELSE CascadePages(pgs, gone \cup more)

\* ON DELETE CASCADE of page_shares.page_id
CascadeShares(shs, gonePages) == {s \in shs : s.page_id \notin gonePages}

\* -------------------------------------------------------- access evaluator
\* an evaluator that lets a grant on the parent page count for the page
Inherit_check_page_access(page_id, user_id) ==
    IF page_id \notin DOMAIN pages THEN "absent"
    ELSE IF pages[page_id].user_id = user_id THEN "owner"
    ELSE LET found == {s \in shares : /\ s.shared_with_user_id = user_id
                                      /\ \/ s.page_id = page_id
                                         \/ s.page_id = pages[page_id].parent_id}
         IN  IF found = {} THEN "absent"
             ELSE (CHOOSE s \in found : TRUE).permission_level

\* sharing_service.check_page_access: "owner", "edit", "view_only" or "absent"
check_page_access(page_id, user_id) ==
    IF page_id \notin DOMAIN pages THEN "absent"
    ELSE IF pages[page_id].user_id = user_id THEN "owner"
    ELSE LET found == {s \in shares : /\ s.page_id = page_id
                                      /\ s.shared_with_user_id = user_id}
         IN  IF found = {} THEN "absent"
             ELSE (CHOOSE s \in found : TRUE).permission_level

\* the helper with the edit test letting every level through
Lax_require_page_access(page_id, user_id, required) ==
    LET access == check_page_access(page_id, user_id)
    IN  IF access = "absent"
        THEN [status |-> 404, detail |-> "Page not found", access |-> access]
        ELSE IF required = "owner" /\ access # "owner"
        THEN [status |-> 403, access |-> access,
              detail |-> "Insufficient permission for this operation"]
        ELSE [status |-> 200, detail |-> "", access |-> access]

\* the helper answering forbidden for a page that exists but is not shared
Leaky_require_page_access(page_id, user_id, required) ==
    LET access == check_page_access(page_id, user_id)
    IN  IF page_id \notin DOMAIN pages
        THEN [status |-> 404, detail |-> "Page not found", access |-> access]
        ELSE IF access = "absent" \/ (required = "owner" /\ access # "owner")
        THEN [status |-> 403, access |-> access,
              detail |-> "Insufficient permission for this operation"]
        ELSE IF required = "edit" /\ access \notin {"owner", "edit"}
        THEN [status |-> 403, access |-> access,
              detail |-> "Insufficient permission for this operation"]
        ELSE [status |-> 200, detail |-> "", access |-> access]

\* permissions.require_page_access: the status it raises (200 when it
\* returns) and the access level it returns
require_page_access(page_id, user_id, required) ==
    LET access == check_page_access(page_id, user_id)
    IN  IF access = "absent"
        THEN [status |-> 404, detail |-> "Page not found", access |-> access]
        ELSE IF required = "owner" /\ access # "owner"
        THEN [status |-> 403, access |-> access,
              detail |-> "Insufficient permission for this operation"]
        ELSE IF required = "edit" /\ access \notin {"owner", "edit"}
        THEN [status |-> 403, access |-> access,
              detail |-> "Insufficient permission for this operation"]
        ELSE [status |-> 200, detail |-> "", access |-> access]

\* the lookup that also returns a page the user holds an edit grant on
Editable_get_owned_page_or_none(page_id, user_id) ==
    IF page_id \in DOMAIN pages
       /\ check_page_access(page_id, user_id) \in {"owner", "edit"}
    THEN page_id ELSE NULL

\* the lookup by id alone, whoever owns the page
AnyOwner_get_owned_page_or_none(page_id, user_id) ==
    IF page_id \in DOMAIN pages THEN page_id ELSE NULL
\* pages_service._get_owned_page_or_none: the page id, or NULL
get_owned_page_or_none(page_id, user_id) ==
    IF page_id \in DOMAIN pages /\ pages[page_id].user_id = user_id
    THEN page_id ELSE NULL

\* the owner test that looks only for the page, whoever owns it
Stored_require_page_owner(page_id, owner_id) ==
    IF page_id \in DOMAIN pages THEN 200 ELSE 403
\* sharing_service._require_page_owner: the status it raises (200: returns)
require_page_owner(page_id, owner_id) ==
    IF page_id \in DOMAIN pages /\ pages[page_id].user_id = owner_id
    THEN 200 ELSE 403

\* sharing_service._require_target_user
require_target_user(user_id) == IF user_id \in DOMAIN users THEN 200 ELSE 404


\* ---------------------------------------------------------------- handlers
\* A handler's result: the status it answers with and the tables after it
\* (a handler that raises leaves its session's changes uncommitted).
Result(status, pgs, shs) ==
    [status |-> status, detail |-> "", pages |-> pgs, shares |-> shs]
\* raise HTTPException(status_code, detail)
Raise(status, detail) ==
    [status |-> status, detail |-> detail, pages |-> pages, shares |-> shares]
\* an exception of the store that no handler catches
RaiseStoreError == Raise(500, "Internal Server Error")

\* a close that writes the session's pending changes to the store
Committing_session_close(committed, pending) == pending

\* get_db: the session is closed without a commit; what it had assigned or
\* flushed is rolled back and the table is as committed
session_close(committed, pending) == committed

\* an exception raised after the session has assigned `dirty` to the row of
\* page_id: the request ends and get_db closes the session
RaiseDirty(status, detail, page_id, dirty) ==
    [status |-> status, detail |-> detail,
     pages |-> session_close(pages, With(pages, page_id, dirty)),
     shares |-> shares]

\* the users table without the trigger: the role stays as inserted
Off_assign_first_user_admin(usrs, role) == role

\* trigger set_first_user_admin, BEFORE INSERT ON users
assign_first_user_admin(usrs, role) ==
    IF Cardinality(DOMAIN usrs) = 0 THEN "admin" ELSE role

\* auth.register: status and the users table after it
register(payload) ==
    LET email == Strip(Lower(payload.email))
        username == Strip(Lower(payload.username))
    IN  IF \E u \in DOMAIN users : users[u].email = email
        THEN [status |-> 409, detail |-> "Email is already registered",
              users |-> users]
        ELSE IF \E u \in DOMAIN users : Lower(users[u].username) = username
        THEN [status |-> 409, detail |-> "Username is already taken",
              users |-> users]
        ELSE [status |-> 201, detail |-> "",
              users |-> With(users, nextUser,
                             [email |-> email, username |-> username,
                              role |-> assign_first_user_admin(users, "user")])]

\* pages_service.create_page
create_page(user_id, title, content, parent_id) ==
    LET normalized_title == Strip(title)
        row == PageRow(user_id, parent_id, normalized_title, content)
    IN  IF normalized_title = <<>> THEN Raise(422, "Title cannot be empty")
        ELSE IF parent_id # NULL /\ get_owned_page_or_none(parent_id, user_id) = NULL
        THEN Raise(404, "Parent page not found")
        ELSE IF ~ PageRowAccepted(users, pages, nextPage, row) THEN RaiseStoreError
        ELSE Result(201, With(pages, nextPage, row), shares)

\* the hierarchy test opened to every caller the endpoint lets through
Editor_may_change_hierarchy(access_level) == access_level \in {"owner", "edit"}

\* update_page: who may send parent_id
may_change_hierarchy(access_level) == access_level = "owner"

\* the handler without its own self-parent test
Never_is_own_parent(page_id, parent_id) == FALSE

\* update_page: parent_id == page.id
is_own_parent(page_id, parent_id) == parent_id = page_id

\* pages_service.update_page
update_page(page_id, user_id, access_level, updates) ==
    IF page_id \notin DOMAIN pages THEN Raise(404, "Page not found")
    ELSE
    LET page == pages[page_id]
        normalized_title == IF updates.title_null THEN <<>> ELSE Strip(updates.title)
        parent_id == updates.parent_id
        \* the row in the session after page.title and page.content
        assigned == PageRow(page.user_id, page.parent_id,
                            IF updates.has_title THEN normalized_title ELSE page.title,
                            IF updates.has_content THEN updates.content ELSE page.content)
        \* and after page.parent_id
        row == PageRow(page.user_id,
                       IF updates.has_parent THEN parent_id ELSE page.parent_id,
                       assigned.title, assigned.content)
    IN  IF updates.has_title /\ normalized_title = <<>>
        THEN Raise(422, "Title cannot be empty")
        ELSE IF updates.has_parent /\ ~ may_change_hierarchy(access_level)
        THEN RaiseDirty(403, "Only page owner can change page hierarchy",
                        page_id, assigned)
        ELSE IF updates.has_parent /\ parent_id # NULL /\ is_own_parent(page_id, parent_id)
        THEN RaiseDirty(422, "Page cannot be its own parent", page_id, assigned)
        ELSE IF /\ updates.has_parent /\ parent_id # NULL
                /\ get_owned_page_or_none(parent_id, user_id) = NULL
        THEN RaiseDirty(404, "Parent page not found", page_id, assigned)
        \* commit: an UPDATE is sent only for a row that changed
        ELSE IF row = page THEN Result(200, pages, shares)
        ELSE IF ~ PageRowAccepted(users, pages, page_id, row)
        THEN RaiseDirty(500, "Internal Server Error", page_id, row)
        ELSE Result(200, With(pages, page_id, row), shares)

\* the endpoint asking for view access only
ViewRequired_update_page_endpoint(current_user, page_id, updates) ==
    LET acc == require_page_access(page_id, current_user, "view")
    IN  IF acc.status # 200 THEN Raise(acc.status, acc.detail)
        ELSE update_page(page_id, current_user, acc.access, updates)

\* routers.pages.update_page_endpoint
update_page_endpoint(current_user, page_id, updates) ==
    LET acc == require_page_access(page_id, current_user, "edit")
    IN  IF acc.status # 200 THEN Raise(acc.status, acc.detail)
        ELSE update_page(page_id, current_user, acc.access, updates)

\* pages_service.delete_page: the row goes, the store cascades
delete_page(page_id) ==
    IF page_id \notin DOMAIN pages THEN Raise(404, "Page not found")
    ELSE LET gone == CascadePages(pages, {page_id})
         IN  Result(204, Without(pages, gone), CascadeShares(shares, gone))

\* routers.pages.delete_page_endpoint
delete_page_endpoint(current_user, page_id) ==
    LET acc == require_page_access(page_id, current_user, "owner")
    IN  IF acc.status # 200 THEN Raise(acc.status, acc.detail) ELSE delete_page(page_id)

\* the checks with the target looked up before the owner
TargetFirst_share_page_checks(page_id, owner_id, shared_with_user_id) ==
    IF require_target_user(shared_with_user_id) # 200
    THEN Raise(404, "Target user not found")
    ELSE IF owner_id = shared_with_user_id
    THEN Raise(422, "Cannot share page with yourself")
    ELSE IF require_page_owner(page_id, owner_id) # 200
    THEN Raise(403, "Only page owner can manage shares")
    ELSE Result(200, pages, shares)

\* share_page, first half: the checks; 200 when they pass
share_page_checks(page_id, owner_id, shared_with_user_id) ==
    IF require_page_owner(page_id, owner_id) # 200
    THEN Raise(403, "Only page owner can manage shares")
    ELSE IF require_target_user(shared_with_user_id) # 200
    THEN Raise(404, "Target user not found")
    ELSE IF owner_id = shared_with_user_id
    THEN Raise(422, "Cannot share page with yourself")
    ELSE Result(200, pages, shares)

\* share_page / revoke_share: SELECT ... WHERE page_id AND shared_with_user_id
\* (the rows found: none or one)
existing_share(page_id, shared_with_user_id) ==
    {s \in shares : /\ s.page_id = page_id
                    /\ s.shared_with_user_id = shared_with_user_id}

\* share_page, second half: add or change the grant and commit, `existing`
\* being the rows the SELECT returned
share_page_commit(page_id, owner_id, shared_with_user_id, permission_level, existing) ==
    IF existing = {}
    THEN LET row == ShareRow(nextShare, page_id, owner_id,
                             shared_with_user_id, permission_level)
         IN  IF ShareRowAccepted(users, pages, shares, row)
             THEN Result(200, pages, shares \cup {row})
             ELSE RaiseStoreError
    ELSE LET share == CHOOSE s \in existing : TRUE
             stored == {s \in shares : s.id = share.id}
         IN  IF stored = {} THEN RaiseStoreError
             \* an UPDATE is sent only when the loaded level differs
             ELSE IF share.permission_level = permission_level
             THEN Result(200, pages, shares)
             ELSE Result(200, pages,
                         {IF s.id = share.id
                          THEN [s EXCEPT !.permission_level = permission_level]
                          ELSE s : s \in shares})

\* sharing_service.share_page, run without interruption
share_page(page_id, owner_id, shared_with_user_id, permission_level) ==
    LET checks == share_page_checks(page_id, owner_id, shared_with_user_id)
    IN  IF checks.status # 200 THEN checks
        ELSE share_page_commit(page_id, owner_id, shared_with_user_id,
                               permission_level,
                               existing_share(page_id, shared_with_user_id))

\* the revocation that answers without deleting the grant
Kept_revoke_share(page_id, owner_id, shared_with_user_id) ==
    LET existing == existing_share(page_id, shared_with_user_id)
    IN  IF require_page_owner(page_id, owner_id) # 200
        THEN Raise(403, "Only page owner can manage shares")
        ELSE IF existing = {} THEN Raise(404, "Share record not found")
        ELSE Result(204, pages, shares)

\* sharing_service.revoke_share
revoke_share(page_id, owner_id, shared_with_user_id) ==
    LET existing == existing_share(page_id, shared_with_user_id)
    IN  IF require_page_owner(page_id, owner_id) # 200
        THEN Raise(403, "Only page owner can manage shares")
        ELSE IF existing = {} THEN Raise(404, "Share record not found")
        ELSE Result(204, pages, shares \ existing)


\* ----------------------------------------------------------- tree assembler
\* the key taken from the title as stored, without casefold
Raw_KeyLess(a, b) ==
    \/ StrLess(pages[a].title, pages[b].title)
    \/ (pages[a].title = pages[b].title /\ a < b)

\* the sort key (page.title.casefold(), str(page.id)), as an order on pages
KeyLess(a, b) ==
    LET ka == CaseFold(pages[a].title)
        kb == CaseFold(pages[b].title)
    IN  StrLess(ka, kb) \/ (ka = kb /\ a < b)

\* list.sort(key=...) / sorted(..., key=...) of a collection of pages
RECURSIVE SortPages(_)
SortPages(S) ==
    IF S = {} THEN <<>>
    ELSE LET first == CHOOSE a \in S : \A b \in S \ {a} : KeyLess(a, b)
         IN  <<first>> \o SortPages(S \ {first})

Range(seq) == {seq[i] : i \in 1..Len(seq)}

\* list_pages, first query: the pages the user owns
owned_pages(user_id) == {p \in DOMAIN pages : pages[p].user_id = user_id}

\* list_pages, second query: Page JOIN PageShare JOIN User, the rows shared
\* with the user whose page the user does not own
shared_rows(user_id) ==
    {[page |-> s.page_id, permission_level |-> s.permission_level,
      owner_email |-> users[pages[s.page_id].user_id].email] :
        s \in {x \in shares : /\ x.shared_with_user_id = user_id
                              /\ x.page_id \in DOMAIN pages
                              /\ pages[x.page_id].user_id \in DOMAIN users
                              /\ pages[x.page_id].user_id # user_id}}

\* the merged candidate list, sorted: the user's visible set in order
visible_pages(user_id) ==
    SortPages(owned_pages(user_id) \cup {r.page : r \in shared_rows(user_id)})

\* the metadata without the entries of the shared rows: defaults everywhere
Defaults_page_metadata(user_id, page_id) ==
    [is_shared |-> FALSE, permission |-> "null", owner_email |-> <<>>]

\* metadata.get(page.id, {}) with the defaults serialize reads: owned pages
\* are entered first, a shared row only for a page not yet entered, and a
\* page without an entry gets the defaults; "null" and <<>> stand for None
page_metadata(user_id, page_id) ==
    IF page_id \in owned_pages(user_id)
    THEN [is_shared |-> FALSE, permission |-> "null", owner_email |-> <<>>]
    ELSE IF \E x \in shared_rows(user_id) : x.page = page_id
    THEN LET r == CHOOSE x \in shared_rows(user_id) : x.page = page_id
         IN  [is_shared |-> TRUE, permission |-> r.permission_level,
              owner_email |-> r.owner_email]
    ELSE [is_shared |-> FALSE, permission |-> "null", owner_email |-> <<>>]

\* the index built over every stored page instead of the visible ones
AllPages_by_parent(user_id, key) ==
    SortPages({p \in DOMAIN pages : pages[p].parent_id = key})

\* by_parent.get(key, []): the visible pages whose parent_id is key, in
\* the order of the sorted list
by_parent(user_id, key) ==
    SelectSeq(visible_pages(user_id), LAMBDA p : pages[p].parent_id = key)

\* by_id: the ids of the visible pages
by_id(user_id) == Range(visible_pages(user_id))

\* the root test that takes every visible page for a root
Every_is_root(user_id, p) == TRUE
\* the root test that looks at a null parent_id only
NullOnly_is_root(user_id, p) == pages[p].parent_id = NULL

\* list_pages: the test that makes a visible page a root of the forest
is_root(user_id, p) ==
    pages[p].parent_id = NULL \/ pages[p].parent_id \notin by_id(user_id)

\* serialize(node)
RECURSIVE serialize(_, _)
serialize(user_id, node) ==
    LET node_meta == page_metadata(user_id, node)
        children == SortPages(Range(by_parent(user_id, node)))
    IN  [id |-> node,
         user_id |-> pages[node].user_id,
         parent_id |-> pages[node].parent_id,
         title |-> pages[node].title,
         content |-> pages[node].content,
         is_shared |-> node_meta.is_shared,
         permission |-> node_meta.permission,
         owner_email |-> node_meta.owner_email,
         children |-> [i \in 1..Len(children) |-> serialize(user_id, children[i])]]

\* the parent looked up among all stored pages
Stored_parent_exists(user_id, parent_id) == parent_id \in DOMAIN pages

\* list_pages: any(page.id == parent_id for page in pages)
parent_exists(user_id, parent_id) ==
    \E p \in Range(visible_pages(user_id)) : p = parent_id

\* pages_service.list_pages: status, detail and the forest returned
list_pages(user_id, parent_id) ==
    LET pgs == visible_pages(user_id)
        roots == SortPages({p \in Range(pgs) : is_root(user_id, p)})
        children == SortPages(Range(by_parent(user_id, parent_id)))
    IN  IF parent_id # NULL /\ ~ parent_exists(user_id, parent_id)
        THEN [status |-> 404, detail |-> "Parent page not found", body |-> <<>>]
        ELSE IF parent_id = NULL
        THEN [status |-> 200, detail |-> "",
              body |-> [i \in 1..Len(roots) |-> serialize(user_id, roots[i])]]
        ELSE [status |-> 200, detail |-> "",
              body |-> [i \in 1..Len(children) |-> serialize(user_id, children[i])]]

\* ------------------------------------------------------------ read handlers
\* PageResponse of a stored page
PageResponse(page_id) ==
    [id |-> page_id, user_id |-> pages[page_id].user_id,
     parent_id |-> pages[page_id].parent_id, title |-> pages[page_id].title,
     content |-> pages[page_id].content]

\* routers.pages.get_page_endpoint
get_page_endpoint(current_user, page_id) ==
    LET acc == require_page_access(page_id, current_user, "view")
    IN  IF acc.status # 200
        THEN [status |-> acc.status, detail |-> acc.detail, body |-> {}]
        ELSE [status |-> 200, detail |-> "", body |-> {PageResponse(page_id)}]

\* pages_service.get_child_pages: the rows whose parent_id is page_id
get_child_pages(page_id) == {p \in DOMAIN pages : pages[p].parent_id = page_id}

\* the collations the database of this application may have been created
\* with (none is set by the migrations): code point order, or a linguistic
\* order that compares letters without regard to case and puts, of two
\* titles equal up to case, the one with the lower-case letter first
Collations == {"C", "linguistic"}

\* Page.title.asc() under a collation
TitleLess(collation, a, b) ==
    IF collation = "C" THEN StrLess(a, b)
    ELSE LET fa == CaseFold(a)
             fb == CaseFold(b)
         IN  StrLess(fa, fb) \/ (fa = fb /\ StrLess(b, a))

\* ORDER BY pages.title ASC, pages.id ASC, as an order on pages
OrderLess(collation, a, b) ==
    \/ TitleLess(collation, pages[a].title, pages[b].title)
    \/ (pages[a].title = pages[b].title /\ a < b)

\* the rows of a query in the order its ORDER BY gives
RECURSIVE order_by(_, _)
order_by(S, collation) ==
    IF S = {} THEN <<>>
    ELSE LET first == CHOOSE a \in S : \A b \in S \ {a} : OrderLess(collation, a, b)
         IN  <<first>> \o order_by(S \ {first}, collation)

\* pages_service.get_child_pages with its ORDER BY: the children of page_id
\* in the order the query returns them
child_rows(page_id, collation) == order_by(get_child_pages(page_id), collation)
\* routers.pages.get_page_children_endpoint
get_page_children_endpoint(current_user, page_id) ==
    LET acc == require_page_access(page_id, current_user, "view")
    IN  IF acc.status # 200
        THEN [status |-> acc.status, detail |-> acc.detail, body |-> {}]
        ELSE [status |-> 200, detail |-> "",
              body |-> {PageResponse(p) : p \in get_child_pages(page_id)}]

\* sharing_service.get_page_shares behind routers.pages.list_shares_endpoint
get_page_shares(page_id, owner_id) ==
    IF require_page_owner(page_id, owner_id) # 200
    THEN [status |-> 403, detail |-> "Only page owner can manage shares", body |-> {}]
    ELSE [status |-> 200, detail |-> "",
          body |-> {s \in shares : /\ s.page_id = page_id
                                   /\ s.shared_with_user_id \in DOMAIN users}]


\* ----------------------------------------------------------------- actions
\* the caller of a page request is a user get_current_user resolves
Callers == DOMAIN users

\* requests are served one after another: the next one is taken up when
\* the response to the last one has gone out
Idle == resp = NoResp

\* the response goes out
Reply ==
    /\ ~ Idle
    /\ resp' = NoResp
    /\ UNCHANGED <<users, pages, shares, nextUser, nextPage, nextShare, calls>>

\* POST /api/auth/register
Register(payload) ==
    /\ LET r == register(payload)
       IN  /\ users' = r.users
           /\ nextUser' = IF r.status = 201 THEN nextUser + 1 ELSE nextUser
           /\ resp' = Resp("register", NULL, payload, r)
    /\ UNCHANGED <<pages, shares, nextPage, nextShare, calls>>

\* POST /api/pages
CreatePage(u, title, content, parent_id) ==
    /\ LET r == create_page(u, title, content, parent_id)
       IN  /\ pages' = r.pages
           /\ shares' = r.shares
           /\ nextPage' = IF r.status = 201 THEN nextPage + 1 ELSE nextPage
           /\ resp' = Resp("create", u,
                           [title |-> title, content |-> content,
                            parent_id |-> parent_id], r)
    /\ UNCHANGED <<users, nextUser, nextShare, calls>>

\* PUT /api/pages/{page_id}
UpdatePage(u, page_id, updates) ==
    /\ LET r == update_page_endpoint(u, page_id, updates)
       IN  /\ pages' = r.pages
           /\ shares' = r.shares
           /\ resp' = Resp("update", u,
                           [page_id |-> page_id, updates |-> updates], r)
    /\ UNCHANGED <<users, nextUser, nextPage, nextShare, calls>>

\* DELETE /api/pages/{page_id}
DeletePage(u, page_id) ==
    /\ LET r == delete_page_endpoint(u, page_id)
       IN  /\ pages' = r.pages
           /\ shares' = r.shares
           /\ resp' = Resp("delete", u, [page_id |-> page_id], r)
    /\ UNCHANGED <<users, nextUser, nextPage, nextShare, calls>>

\* POST /api/pages/{page_id}/share
SharePage(u, page_id, target, level) ==
    /\ LET r == share_page(page_id, u, target, level)
       IN  /\ pages' = r.pages
           /\ shares' = r.shares
           /\ nextShare' = IF \E s \in r.shares : s.id = nextShare
                           THEN nextShare + 1 ELSE nextShare
           /\ resp' = Resp("share", u,
                           [page_id |-> page_id, shared_with_user_id |-> target,
                            permission_level |-> level], r)
    /\ UNCHANGED <<users, nextUser, nextPage, calls>>

\* DELETE /api/pages/{page_id}/share/{shared_with_user_id}
RevokeShare(u, page_id, target) ==
    /\ LET r == revoke_share(page_id, u, target)
       IN  /\ pages' = r.pages
           /\ shares' = r.shares
           /\ resp' = Resp("revoke", u,
                           [page_id |-> page_id, shared_with_user_id |-> target], r)
    /\ UNCHANGED <<users, nextUser, nextPage, nextShare, calls>>

\* GET /api/pages/{page_id}
GetPage(u, page_id) ==
    /\ resp' = Resp("get", u, [page_id |-> page_id], get_page_endpoint(u, page_id))
    /\ UNCHANGED <<users, pages, shares, nextUser, nextPage, nextShare, calls>>

\* GET /api/pages/{page_id}/children
GetChildren(u, page_id) ==
    /\ resp' = Resp("children", u, [page_id |-> page_id],
                    get_page_children_endpoint(u, page_id))
    /\ UNCHANGED <<users, pages, shares, nextUser, nextPage, nextShare, calls>>

\* GET /api/pages?parent_id=
ListPages(u, parent_id) ==
    /\ resp' = Resp("list", u, [parent_id |-> parent_id], list_pages(u, parent_id))
    /\ UNCHANGED <<users, pages, shares, nextUser, nextPage, nextShare, calls>>

\* GET /api/pages/{page_id}/shares
ListShares(u, page_id) ==
    /\ resp' = Resp("shares", u, [page_id |-> page_id], get_page_shares(page_id, u))
    /\ UNCHANGED <<users, pages, shares, nextUser, nextPage, nextShare, calls>>

\* the counters stay within the bounds
WithinBounds ==
    /\ nextUser' <= MaxUsers + 1
    /\ nextPage' <= MaxPages + 1
    /\ nextShare' <= MaxShares + 1
    /\ (nextPage' - 1) + (nextShare' - 1) <= MaxRows

\* the requests a client can send, with their inputs
RegisterRequest ==
    Idle /\ \E payload \in RegisterInputs : Register(payload) /\ WithinBounds

CreatePageRequest ==
    Idle /\ \E u \in Callers, t \in TitleInputs, c \in ContentInputs,
               par \in {NULL} \cup PageIdInputs :
               CreatePage(u, t, c, par) /\ WithinBounds

UpdatePageRequest ==
    Idle /\ \E u \in Callers, p \in PageIdInputs, upd \in UpdateInputs :
               UpdatePage(u, p, upd)

DeletePageRequest ==
    Idle /\ \E u \in Callers, p \in PageIdInputs : DeletePage(u, p)

SharePageRequest ==
    Idle /\ \E u \in Callers, p \in PageIdInputs, t \in UserIdInputs,
               l \in PermissionLevel : SharePage(u, p, t, l) /\ WithinBounds

RevokeShareRequest ==
    Idle /\ \E u \in Callers, p \in PageIdInputs, t \in UserIdInputs :
               RevokeShare(u, p, t)

GetPageRequest ==
    Idle /\ \E u \in Callers, p \in PageIdInputs : GetPage(u, p)

GetChildrenRequest ==
    Idle /\ \E u \in Callers, p \in PageIdInputs : GetChildren(u, p)

ListPagesRequest ==
    Idle /\ \E u \in Callers, par \in {NULL} \cup PageIdInputs : ListPages(u, par)

ListSharesRequest ==
    Idle /\ \E u \in Callers, p \in PageIdInputs : ListShares(u, p)

\* the application of main.py: the auth router and the pages router
Next ==
    \/ RegisterRequest
    \/ CreatePageRequest
    \/ UpdatePageRequest
    \/ DeletePageRequest
    \/ SharePageRequest
    \/ RevokeShareRequest
    \/ GetPageRequest
    \/ GetChildrenRequest
    \/ ListPagesRequest
    \/ ListSharesRequest
    \/ Reply

Spec == Init /\ [][Next]_vars

\* --------------------------------------------- share_page calls interleaved
\* share_page up to its SELECT: the checks, then the rows found for
\* (page_id, shared_with_user_id); a failed check ends the call
ShareBegin(k, u, page_id, target, level) ==
    /\ calls[k].pc = "idle"
    /\ LET checks == share_page_checks(page_id, u, target)
       IN  IF checks.status # 200
           THEN /\ resp' = Resp("share", u,
                                [page_id |-> page_id, shared_with_user_id |-> target,
                                 permission_level |-> level], checks)
                /\ UNCHANGED calls
           ELSE /\ calls' = [calls EXCEPT ![k] =
                               [pc |-> "read", owner_id |-> u, page_id |-> page_id,
                                shared_with_user_id |-> target,
                                permission_level |-> level,
                                existing |-> existing_share(page_id, target)]]
                /\ UNCHANGED resp
    /\ UNCHANGED <<users, pages, shares, nextUser, nextPage, nextShare>>

\* share_page from its SELECT on: the insert or the change, and the commit
ShareCommit(k) ==
    /\ calls[k].pc = "read"
    /\ LET c == calls[k]
           r == share_page_commit(c.page_id, c.owner_id, c.shared_with_user_id,
                                  c.permission_level, c.existing)
       IN  /\ pages' = r.pages
           /\ shares' = r.shares
           /\ nextShare' = IF \E s \in r.shares : s.id = nextShare
                           THEN nextShare + 1 ELSE nextShare
           /\ resp' = Resp("share", c.owner_id,
                           [page_id |-> c.page_id,
                            shared_with_user_id |-> c.shared_with_user_id,
                            permission_level |-> c.permission_level], r)
    /\ calls' = [calls EXCEPT ![k] = NoCall]
    /\ UNCHANGED <<users, nextUser, nextPage>>

ShareBeginRequest ==
    Idle /\ \E k \in Sessions, u \in Callers, p \in PageIdInputs,
               t \in UserIdInputs, l \in PermissionLevel : ShareBegin(k, u, p, t, l)

ShareCommitRequest ==
    Idle /\ \E k \in Sessions : ShareCommit(k) /\ WithinBounds

ConcCreatePageRequest ==
    CreatePageRequest /\ nextPage' <= MaxConcPages + 1

\* the application with share_page calls of several clients in progress at
\* once, next to the requests that remove what they work on
NextConc ==
    \/ RegisterRequest
    \/ ConcCreatePageRequest
    \/ ShareBeginRequest
    \/ ShareCommitRequest
    \/ RevokeShareRequest
    \/ DeletePageRequest
    \/ Reply

SpecConc == Init /\ [][NextConc]_vars

\* -------------------------------------------- update_page calls interleaved
\* the ids and payloads of the updates that run at the same time: a
\* parent_id alone
MovePageIdInputs == 1..MaxMovePages
MoveInputs ==
    {[has_title |-> FALSE, title_null |-> FALSE, title |-> <<32, 97>>,
      has_content |-> FALSE, content |-> "null",
      has_parent |-> TRUE, parent_id |-> par] : par \in {NULL} \cup MovePageIdInputs}

\* the row of page_id is locked by the UPDATE of a call not yet committed
RowLocked(page_id) ==
    \E k \in Sessions : calls[k].pc = "flushed" /\ calls[k].page_id = page_id

\* update_page up to the UPDATE statement its commit sends first: the
\* handler's checks, then the constraints and the trigger, which read the
\* rows committed so far (the database runs at its default isolation level,
\* read committed, and the handler takes no lock). A refused request ends
\* here; an UPDATE of a row another call has locked waits for that call.
UpdateBegin(k, u, page_id, updates) ==
    /\ calls[k].pc = "idle"
    /\ ~ RowLocked(page_id)
    /\ LET r == update_page_endpoint(u, page_id, updates)
       IN  IF r.status # 200 \/ r.pages = pages
           THEN /\ resp' = Resp("update", u,
                                [page_id |-> page_id, updates |-> updates], r)
                /\ UNCHANGED calls
           ELSE /\ calls' = [calls EXCEPT ![k] =
                               [pc |-> "flushed", owner_id |-> u,
                                page_id |-> page_id, updates |-> updates,
                                row |-> r.pages[page_id]]]
                /\ UNCHANGED resp
    /\ UNCHANGED <<users, pages, shares, nextUser, nextPage, nextShare>>

\* update_page from its UPDATE statement on: the transaction commits and
\* the row it wrote becomes visible to the other sessions
UpdateCommit(k) ==
    /\ calls[k].pc = "flushed"
    /\ LET c == calls[k]
       IN  /\ pages' = With(pages, c.page_id, c.row)
           /\ resp' = Resp("update", c.owner_id,
                           [page_id |-> c.page_id, updates |-> c.updates],
                           Result(200, pages', shares))
    /\ calls' = [calls EXCEPT ![k] = NoCall]
    /\ UNCHANGED <<users, shares, nextUser, nextPage, nextShare>>

UpdateBeginRequest ==
    Idle /\ \E k \in Sessions, u \in Callers, p \in MovePageIdInputs,
               upd \in MoveInputs : UpdateBegin(k, u, p, upd)

UpdateCommitRequest ==
    Idle /\ \E k \in Sessions : UpdateCommit(k)

MoveCreatePageRequest ==
    CreatePageRequest /\ nextPage' <= MaxMovePages + 1

\* the application with update_page calls of several clients in progress
\* at once
NextMove ==
    \/ RegisterRequest
    \/ MoveCreatePageRequest
    \/ UpdateBeginRequest
    \/ UpdateCommitRequest
    \/ Reply

SpecMove == Init /\ [][NextMove]_vars
\* ------------------------------------------------------ the admin router
\* _require_admin
require_admin(current_user) ==
    IF users[current_user].role # "admin" THEN 403 ELSE 200

\* a result of an admin handler: status, detail and the three tables
AdminResult(status, detail, usrs, pgs, shs) ==
    [status |-> status, detail |-> detail, users |-> usrs,
     pages |-> pgs, shares |-> shs]
AdminRaise(status, detail) == AdminResult(status, detail, users, pages, shares)

\* admin.create_user
create_user(current_user, payload) ==
    LET email == Strip(Lower(payload.email))
        username == Strip(Lower(payload.username))
    IN  IF require_admin(current_user) # 200
        THEN AdminRaise(403, "Admin access required")
        ELSE IF \E u \in DOMAIN users : users[u].email = email
        THEN AdminRaise(409, "Email is already registered")
        ELSE IF \E u \in DOMAIN users : Lower(users[u].username) = username
        THEN AdminRaise(409, "Username is already taken")
        ELSE AdminResult(201, "",
                         With(users, nextUser,
                              [email |-> email, username |-> username,
                               role |-> assign_first_user_admin(users, payload.role)]),
                         pages, shares)

\* the handler without the test for the caller's own account
Never_deleting_self(user_id, current_user) == FALSE

\* delete_user: user.id == current_user.id
deleting_self(user_id, current_user) == user_id = current_user

\* delete_user: the count of users with the target's role
admin_count(role) == Cardinality({u \in DOMAIN users : users[u].role = role})

\* a cascade that follows page_shares.page_id only
PagesOnly_UserCascadeShares(shs, user_id, gonePages) ==
    CascadeShares(shs, gonePages)
\* ON DELETE CASCADE of pages.user_id and of page_shares.owner_id and
\* shared_with_user_id: what goes with a user
UserCascadePages(pgs, user_id) ==
    CascadePages(pgs, {p \in DOMAIN pgs : pgs[p].user_id = user_id})
UserCascadeShares(shs, user_id, gonePages) ==
    {s \in CascadeShares(shs, gonePages) :
        s.owner_id # user_id /\ s.shared_with_user_id # user_id}

\* admin.delete_user
delete_user(current_user, user_id) ==
    IF require_admin(current_user) # 200
    THEN AdminRaise(403, "Admin access required")
    ELSE IF user_id \notin DOMAIN users THEN AdminRaise(404, "User not found")
    ELSE IF deleting_self(user_id, current_user)
    THEN AdminRaise(400, "You cannot delete your own account")
    ELSE IF users[user_id].role = "admin" /\ admin_count(users[user_id].role) <= 1
    THEN AdminRaise(400, "Cannot delete the last admin user")
    ELSE LET gone == UserCascadePages(pages, user_id)
         IN  AdminResult(204, "", Without(users, {user_id}),
                         Without(pages, gone),
                         UserCascadeShares(shares, user_id, gone))

\* POST /api/admin/users
CreateUser(u, payload) ==
    /\ LET r == create_user(u, payload)
       IN  /\ users' = r.users
           /\ nextUser' = IF r.status = 201 THEN nextUser + 1 ELSE nextUser
           /\ resp' = Resp("create_user", u, payload, r)
    /\ UNCHANGED <<pages, shares, nextPage, nextShare, calls>>

\* DELETE /api/admin/users/{user_id}
DeleteUser(u, user_id) ==
    /\ LET r == delete_user(u, user_id)
       IN  /\ users' = r.users
           /\ pages' = r.pages
           /\ shares' = r.shares
           /\ resp' = Resp("delete_user", u, [user_id |-> user_id], r)
    /\ UNCHANGED <<nextUser, nextPage, nextShare, calls>>

\* the counters stay within the bounds of this application
AdminWithinBounds ==
    /\ nextUser' <= MaxAdminUsers + 1
    /\ nextPage' <= MaxAdminPages + 1
    /\ nextShare' <= MaxAdminShares + 1

AdminRegisterRequest ==
    Idle /\ \E payload \in RegisterInputs : Register(payload) /\ AdminWithinBounds

CreateUserRequest ==
    Idle /\ \E u \in Callers, payload \in AdminCreateInputs :
               CreateUser(u, payload) /\ AdminWithinBounds

DeleteUserRequest ==
    Idle /\ \E u \in Callers, t \in AdminUserIdInputs : DeleteUser(u, t)

AdminCreatePageRequest ==
    Idle /\ \E u \in Callers, par \in {NULL} \cup AdminPageIdInputs :
               CreatePage(u, <<97>>, "null", par) /\ AdminWithinBounds

AdminSharePageRequest ==
    Idle /\ \E u \in Callers, p \in AdminPageIdInputs, t \in Callers,
               l \in PermissionLevel : SharePage(u, p, t, l) /\ AdminWithinBounds

\* the application with the admin router included next to the other two
NextAdmin ==
    \/ AdminRegisterRequest
    \/ CreateUserRequest
    \/ DeleteUserRequest
    \/ AdminCreatePageRequest
    \/ AdminSharePageRequest
    \/ Reply

SpecAdmin == Init /\ [][NextAdmin]_vars

\* ------------------------------------------- delete_user calls interleaved
\* delete_user up to its count of admins: the checks, made on the rows
\* committed so far; a refused request ends here
DeleteBegin(k, u, user_id) ==
    /\ calls[k].pc = "idle"
    /\ LET r == delete_user(u, user_id)
       IN  IF r.status # 204
           THEN /\ resp' = Resp("delete_user", u, [user_id |-> user_id], r)
                /\ UNCHANGED calls
           ELSE /\ calls' = [calls EXCEPT ![k] =
                               [pc |-> "checked", owner_id |-> u,
                                user_id |-> user_id]]
                /\ UNCHANGED resp
    /\ UNCHANGED <<users, pages, shares, nextUser, nextPage, nextShare>>

\* delete_user from db.delete(user) on: the DELETE, with what the foreign
\* keys take along, and the commit; a row that another call has deleted in
\* the meantime is not there to delete
DeleteCommit(k) ==
    /\ calls[k].pc = "checked"
    /\ LET c == calls[k]
           gone == UserCascadePages(pages, c.user_id)
       IN  /\ users' = Without(users, {c.user_id})
           /\ pages' = Without(pages, gone)
           /\ shares' = UserCascadeShares(shares, c.user_id, gone)
           /\ resp' = Resp("delete_user", c.owner_id, [user_id |-> c.user_id],
                           AdminResult(204, "", users', pages', shares'))
    /\ calls' = [calls EXCEPT ![k] = NoCall]
    /\ UNCHANGED <<nextUser, nextPage, nextShare>>

DeleteBeginRequest ==
    Idle /\ \E k \in Sessions, u \in Callers, t \in AdminUserIdInputs :
               DeleteBegin(k, u, t)

DeleteCommitRequest ==
    Idle /\ \E k \in Sessions : DeleteCommit(k)

\* the application with the admin router included and delete_user calls of
\* several admins in progress at once
NextAdminConc ==
    \/ AdminRegisterRequest
    \/ CreateUserRequest
    \/ DeleteBeginRequest
    \/ DeleteCommitRequest
    \/ Reply

SpecAdminConc == Init /\ [][NextAdminConc]_vars
\* ------------------------------------------- pages with differing titles
TitledCreatePageRequest ==
    Idle /\ \E u \in Callers, t \in TextTitleInputs,
               par \in {NULL} \cup PageIdInputs :
               CreatePage(u, t, "null", par) /\ WithinBounds

\* the tree listing over pages whose titles differ
NextSort ==
    \/ RegisterRequest
    \/ TitledCreatePageRequest
    \/ SharePageRequest
    \/ ListPagesRequest
    \/ Reply

SpecSort == Init /\ [][NextSort]_vars

\* ------------------------------------ updates of titles and contents
TextCreatePageRequest ==
    Idle /\ \E u \in Callers, t \in TextTitleInputs, c \in TextContentInputs,
               par \in {NULL} \cup TextPageIdInputs :
               /\ CreatePage(u, t, c, par) /\ WithinBounds
               /\ nextPage' <= MaxTextPages + 1

TextUpdatePageRequest ==
    Idle /\ \E u \in Callers, p \in TextPageIdInputs, upd \in TextUpdateInputs :
               UpdatePage(u, p, upd)

TextSharePageRequest ==
    Idle /\ \E u \in Callers, p \in TextPageIdInputs, t \in Callers,
               l \in PermissionLevel : SharePage(u, p, t, l) /\ WithinBounds

\* the application used to edit pages whose titles and contents differ
NextText ==
    \/ RegisterRequest
    \/ TextCreatePageRequest
    \/ TextUpdatePageRequest
    \/ TextSharePageRequest
    \/ Reply

SpecText == Init /\ [][NextText]_vars


\* --------------------------------------------- the order of child pages
\* titles "a", "A" and "B"
OrderTitleInputs == {<<97>>, <<65>>, <<66>>}

\* GET /api/pages/{page_id}/children on a database with the given collation
GetOrderedChildren(u, page_id, collation) ==
    /\ resp' = Resp("children", u,
                    [page_id |-> page_id, collation |-> collation],
                    get_page_children_endpoint(u, page_id))
    /\ UNCHANGED <<users, pages, shares, nextUser, nextPage, nextShare, calls>>

OrderCreatePageRequest ==
    Idle /\ \E u \in Callers, t \in OrderTitleInputs,
               par \in {NULL} \cup PageIdInputs :
               CreatePage(u, t, "null", par) /\ WithinBounds

GetOrderedChildrenRequest ==
    Idle /\ \E u \in Callers, p \in PageIdInputs, collation \in Collations :
               GetOrderedChildren(u, p, collation)

\* the children query and the tree listing over pages whose titles differ
NextOrder ==
    \/ RegisterRequest
    \/ OrderCreatePageRequest
    \/ GetOrderedChildrenRequest
    \/ ListPagesRequest
    \/ Reply

SpecOrder == Init /\ [][NextOrder]_vars
\* ------------------------------------------------------ two long chains
\* one user is registered
DeepRegisterRequest ==
    Idle /\ nextUser = 1 /\ \E payload \in RegisterInputs : Register(payload)

\* each page is created under the page created before it, except the first
\* page and page DeepSplit, which are created as roots
DeepParentInputs ==
    IF nextPage \in {1, DeepSplit} THEN {NULL} ELSE {nextPage - 1}

DeepCreatePageRequest ==
    Idle /\ \E u \in Callers, par \in DeepParentInputs :
               /\ CreatePage(u, <<97>>, "null", par)
               /\ nextPage' <= MaxDeepPages + 1

\* update payloads: the title "B" alone; a move under the last page of the
\* first chain, or back to the top level
DeepUpdateInputs ==
    {[has_title |-> TRUE, title_null |-> FALSE, title |-> <<66>>,
      has_content |-> FALSE, content |-> "null",
      has_parent |-> FALSE, parent_id |-> NULL]}
    \cup
    {[has_title |-> FALSE, title_null |-> FALSE, title |-> <<32, 97>>,
      has_content |-> FALSE, content |-> "null",
      has_parent |-> TRUE, parent_id |-> par] : par \in {NULL, DeepSplit - 1}}

\* the pages updated: the first and the last page of the second chain
DeepUpdatePageRequest ==
    Idle /\ \E u \in Callers, p \in {DeepSplit, MaxDeepPages},
               upd \in DeepUpdateInputs : UpdatePage(u, p, upd)

\* the application used by one client who builds two chains of pages and
\* moves the second under the first
NextDeep ==
    \/ DeepRegisterRequest
    \/ DeepCreatePageRequest
    \/ DeepUpdatePageRequest
    \/ Reply

SpecDeep == Init /\ [][NextDeep]_vars
\* ----------------------------------- updates with several fields at once
\* update payloads: any of the title "B" or " ", the content "c" and a
\* parent_id, at least one of them
FrameUpdateInputs ==
    {u \in [has_title : BOOLEAN, title_null : {FALSE},
            title : {<<66>>, <<32>>},
            has_content : BOOLEAN, content : {"null", "c"},
            has_parent : BOOLEAN, parent_id : {NULL} \cup TextPageIdInputs] :
        /\ ~ u.has_title => u.title = <<66>>
        /\ u.has_content <=> u.content = "c"
        /\ ~ u.has_parent => u.parent_id = NULL
        /\ u.has_title \/ u.has_content \/ u.has_parent}

FrameCreatePageRequest ==
    Idle /\ \E u \in Callers, par \in {NULL} \cup TextPageIdInputs :
               /\ CreatePage(u, <<97>>, "null", par) /\ WithinBounds
               /\ nextPage' <= MaxTextPages + 1

FrameUpdatePageRequest ==
    Idle /\ \E u \in Callers, p \in TextPageIdInputs, upd \in FrameUpdateInputs :
               UpdatePage(u, p, upd)

\* the application used to send updates that set several fields at once
NextFrame ==
    \/ RegisterRequest
    \/ FrameCreatePageRequest
    \/ FrameUpdatePageRequest
    \/ TextSharePageRequest
    \/ Reply

SpecFrame == Init /\ [][NextFrame]_vars


\* ======================================================================
\* Properties
\* ======================================================================
\* the page a response is about (NULL for register, create and list)
RespPage == IF resp.op \in {"update", "delete", "share", "revoke", "get",
                            "children", "shares"}
            THEN resp.args.page_id ELSE NULL

\* p is reached from `from` by following parent_id upward at most n times
RECURSIVE ReachedUpward(_, _, _)
ReachedUpward(p, from, n) ==
    IF from = NULL \/ n = 0 THEN FALSE
    ELSE from = p \/ ReachedUpward(p, ParentOf(pages, from), n - 1)

\* following parent_id upward from p comes back to p
OnCycle(p) == ReachedUpward(p, pages[p].parent_id, Cardinality(DOMAIN pages))

\* C1: after any sequence of create and update requests, served one after
\* another and each accepted or refused by the handlers and by the trigger
\* check_page_hierarchy_cycle, following parent_id upward from a stored page
\* never comes back to that page.
C1_NoCycle == \A p \in DOMAIN pages : ~ OnCycle(p)

\* an update that would have closed a cycle of three pages was refused by
\* the trigger
C1_Witness ==
    /\ resp.op = "update" /\ resp.status = 500
    /\ resp.args.updates.has_parent
    /\ LET p == resp.args.page_id
           q == resp.args.updates.parent_id
       IN  /\ q \in DOMAIN pages
           /\ pages[q].parent_id # NULL
           /\ pages[q].parent_id # p
           /\ ReachedUpward(p, q, 3)

\* what an owner alone may do to page p in a step: reparent it, delete it,
\* create, change or revoke a grant on it
GrantsOn(shs, p) == {s \in shs : s.page_id = p}
HierarchyOrSharesChanged(p) ==
    \/ p \notin DOMAIN pages'
    \/ pages'[p].parent_id # pages[p].parent_id
    \/ GrantsOn(shares', p) # GrantsOn(shares, p)

\* C2: in any sequence of requests, a page's parent_id changes, the page is
\* deleted, or a grant on it is created, changed or revoked only in a step
\* that serves a request of the page's owner; a caller with an edit or
\* view_only grant, or with no grant, causes none of these changes.
C2_OwnerOnly ==
    [][\A p \in DOMAIN pages :
          HierarchyOrSharesChanged(p) =>
              /\ resp'.op \in {"update", "delete", "share", "revoke"}
              /\ resp'.caller = pages[p].user_id]_vars

\* an editor sent parent_id and was refused
C2_Witness ==
    /\ resp.op = "update" /\ resp.status = 403
    /\ resp.detail = "Only page owner can change page hierarchy"
    /\ check_page_access(resp.args.page_id, resp.caller) = "edit"

\* C3: check_page_access is absent for a page that does not exist, "owner"
\* for the page's owner, otherwise the level of the grant for (page, user)
\* if there is one and absent if there is none; a grant on a page gives its
\* holder nothing on the page's parent or children.
C3_AccessEvaluator ==
    \A p \in PageIdInputs, u \in UserIdInputs :
        LET access == check_page_access(p, u)
        IN  /\ p \notin DOMAIN pages => access = "absent"
            /\ p \in DOMAIN pages =>
                 /\ pages[p].user_id = u => access = "owner"
                 /\ pages[p].user_id # u =>
                      /\ \A s \in GrantsOn(shares, p) :
                            s.shared_with_user_id = u =>
                                access = s.permission_level
                      /\ (~ \E s \in GrantsOn(shares, p) :
                              s.shared_with_user_id = u) => access = "absent"

\* a user holding a grant on a child page was answered not-found on the
\* parent page, on which the user holds nothing
C3_Witness ==
    /\ resp.op = "get" /\ resp.status = 404
    /\ resp.args.page_id \in DOMAIN pages
    /\ \E s \in shares :
          /\ s.shared_with_user_id = resp.caller
          /\ pages[s.page_id].parent_id = resp.args.page_id
    /\ check_page_access(resp.args.page_id, resp.caller) = "absent"

\* the order view_only < edit < owner, and the level each minimum asks for
LevelRank(access) ==
    CASE access = "view_only" -> 1 [] access = "edit" -> 2 [] access = "owner" -> 3
RequiredRank(required) ==
    CASE required = "view" -> 1 [] required = "edit" -> 2 [] required = "owner" -> 3

\* C4: require_page_access raises not-found when check_page_access is
\* absent, forbidden when the level is below the required minimum in the
\* order view_only < edit < owner, and otherwise returns the caller's level.
C4_RequireAccess ==
    \A p \in PageIdInputs, u \in UserIdInputs, required \in RequiredPageAccess :
        LET access == check_page_access(p, u)
            r == require_page_access(p, u, required)
        IN  IF access = "absent" THEN r.status = 404
            ELSE IF LevelRank(access) < RequiredRank(required) THEN r.status = 403
            ELSE r.status = 200 /\ r.access = access

\* a view_only grantee sent an update and was refused as forbidden
C4_Witness ==
    /\ resp.op = "update" /\ resp.status = 403
    /\ resp.detail = "Insufficient permission for this operation"
    /\ check_page_access(resp.args.page_id, resp.caller) = "view_only"


\* what the caller sees of a page request sent for page id pid, the store
\* being the current one: the status, the detail, and whether the store
\* changed
Outcome(op, u, args, pid) ==
    LET r == CASE op = "get" -> get_page_endpoint(u, pid)
               [] op = "children" -> get_page_children_endpoint(u, pid)
               [] op = "update" -> update_page_endpoint(u, pid, args.updates)
               [] op = "delete" -> delete_page_endpoint(u, pid)
               [] op = "share" -> share_page(pid, u, args.shared_with_user_id,
                                             args.permission_level)
               [] op = "revoke" -> revoke_share(pid, u, args.shared_with_user_id)
               [] op = "shares" -> get_page_shares(pid, u)
               [] op = "list" -> list_pages(u, pid)
        changed == IF op \in {"update", "delete", "share", "revoke"}
                   THEN r.pages # pages \/ r.shares # shares
                   ELSE FALSE
    IN  <<r.status, r.detail, changed>>

PageOps == {"get", "children", "update", "delete", "share", "revoke",
            "shares", "list"}

\* the page id a request names
RequestPage(r) == IF r.op = "list" THEN r.args.parent_id ELSE r.args.page_id

\* C5: a request (get, get-children, update, delete, share, revoke,
\* list-shares, list with parent_id) sent for an existing page by a caller
\* who neither owns it nor holds a grant on it is answered exactly as the
\* same request is answered for a page id that does not exist (same status,
\* same detail), and it changes nothing in the store.
C5_Indistinguishable ==
    [][(/\ resp'.op \in PageOps
        /\ RequestPage(resp') \in DOMAIN pages
        /\ check_page_access(RequestPage(resp'), resp'.caller) = "absent")
       => /\ \A q \in PageIdInputs \ DOMAIN pages :
                <<resp'.status, resp'.detail, FALSE>> =
                    Outcome(resp'.op, resp'.caller, resp'.args, q)
          /\ pages' = pages /\ shares' = shares]_vars

\* a caller without any access asked for a page that exists and was
\* answered not-found
C5_Witness ==
    /\ resp.op = "get" /\ resp.status = 404
    /\ resp.args.page_id \in DOMAIN pages
    /\ check_page_access(resp.args.page_id, resp.caller) = "absent"

\* C6: share_page by the page's owner with the owner as target answers
\* validation (422); share_page by a user who does not own the page answers
\* forbidden (403) whatever the target is (a user that does not exist, the
\* caller); in both cases the grants stay as they were.
C6_ShareRefusals ==
    [][resp'.op = "share" =>
         LET p == resp'.args.page_id
             u == resp'.caller
             owns == p \in DOMAIN pages /\ pages[p].user_id = u
         IN  /\ (owns /\ resp'.args.shared_with_user_id = u) =>
                    (resp'.status = 422 /\ shares' = shares)
             /\ ~ owns => (resp'.status = 403 /\ shares' = shares)]_vars

\* a user who does not own the page shared it with a user that does not
\* exist and was answered forbidden
C6_Witness ==
    /\ resp.op = "share" /\ resp.status = 403
    /\ resp.args.page_id \in DOMAIN pages
    /\ resp.args.shared_with_user_id \notin DOMAIN users

\* the grants for (page, shared-with user)
GrantsFor(shs, p, t) ==
    {s \in shs : s.page_id = p /\ s.shared_with_user_id = t}

\* C7: whatever share_page and revoke_share calls have run, two share_page
\* calls for the same (page, target) interleaved between their SELECT and
\* their write included, there is at most one grant per (page, shared-with
\* user); a share_page that succeeds where a grant is stored keeps that
\* grant's id and adds no row, a share_page that succeeds where none is
\* stored adds exactly one, and a share_page that found the stored grant
\* with its SELECT leaves it at the level asked for.
C7_OneGrantPerTarget ==
    /\ [](\A s1, s2 \in shares :
            (s1.page_id = s2.page_id
               /\ s1.shared_with_user_id = s2.shared_with_user_id) => s1 = s2)
    /\ [][\A k \in Sessions :
            (calls[k].pc = "read" /\ calls'[k].pc = "idle"
               /\ resp'.status = 200) =>
            LET c == calls[k]
                before == GrantsFor(shares, c.page_id, c.shared_with_user_id)
                after == GrantsFor(shares', c.page_id, c.shared_with_user_id)
            IN  /\ Cardinality(after) = 1
                /\ before # {} =>
                      /\ {s.id : s \in shares'} = {s.id : s \in shares}
                      /\ {s.id : s \in after} = {s.id : s \in before}
                /\ before = {} => shares' \ shares = after
                /\ shares \ before = shares' \ after
                /\ c.existing = before =>
                      \A s \in after : s.permission_level = c.permission_level]_vars

\* two calls for the same page and target had both found no grant; the
\* first stored its grant, the only one ever stored, and the second was
\* refused by the store
C7_Witness ==
    /\ resp.op = "share" /\ resp.status = 500
    /\ nextShare = 2
    /\ Cardinality(GrantsFor(shares, resp.args.page_id,
                             resp.args.shared_with_user_id)) = 1
    /\ \A k \in Sessions : calls[k].pc = "idle"

\* the descendants of p: the pages from which following parent_id upward
\* reaches p
Descendants(p) ==
    {d \in DOMAIN pages :
        ReachedUpward(p, pages[d].parent_id, Cardinality(DOMAIN pages))}

NoOrphan ==
    /\ \A p \in DOMAIN pages :
          pages[p].parent_id # NULL => pages[p].parent_id \in DOMAIN pages
    /\ \A s \in shares : s.page_id \in DOMAIN pages

\* C8: a delete that succeeds removes the page, every page that was its
\* descendant and every grant on any of them; and in every reachable state
\* each non-null parent_id and each grant's page_id names a stored page.
C8_CascadeDelete ==
    /\ []NoOrphan
    /\ [][(resp'.op = "delete" /\ resp'.status = 204) =>
            LET gone == {resp'.args.page_id} \cup Descendants(resp'.args.page_id)
            IN  /\ gone \cap DOMAIN pages' = {}
                /\ \A s \in shares' : s.page_id \notin gone]_vars

\* the first page was deleted after three pages and at least one grant had been
\* made, and neither a page nor a grant is left
C8_Witness ==
    /\ resp.op = "delete" /\ resp.status = 204 /\ resp.args.page_id = 1
    /\ nextPage = 4 /\ nextShare >= 2
    /\ DOMAIN pages = {} /\ shares = {}

\* the user's visible set: the pages the user owns and the pages shared
\* with the user
Visible(u) ==
    {p \in DOMAIN pages :
        \/ pages[p].user_id = u
        \/ \E s \in shares : s.page_id = p /\ s.shared_with_user_id = u}

NodeIds(nodes) == {nodes[i].id : i \in 1..Len(nodes)}
NoRepeat(nodes) == Cardinality(NodeIds(nodes)) = Len(nodes)

\* C9: list_pages without parent_id returns as roots exactly the visible
\* pages whose parent_id is null or names a page outside the visible set,
\* each once; when the caller sees a single page, a child shared with the
\* caller whose parent belongs to the owner, the forest is that child alone,
\* marked shared, with no node for the parent.
C9_Roots ==
    (resp.op = "list" /\ resp.args.parent_id = NULL) =>
        LET u == resp.caller
            r == list_pages(u, NULL)
        IN  /\ r.status = resp.status /\ r.status = 200
            /\ NodeIds(r.body) =
                   {p \in Visible(u) : \/ pages[p].parent_id = NULL
                                       \/ pages[p].parent_id \notin Visible(u)}
            /\ NoRepeat(r.body)
            /\ \A c \in DOMAIN pages :
                  (/\ Visible(u) = {c}
                   /\ pages[c].user_id # u
                   /\ pages[c].parent_id \in DOMAIN pages)
                  => /\ Len(r.body) = 1
                     /\ r.body[1].id = c
                     /\ r.body[1].is_shared
                     /\ r.body[1].permission \in PermissionLevel
                     /\ r.body[1].children = <<>>

\* B listed the pages while seeing only a child page that A shared, the
\* child's parent being a page of A
C9_Witness ==
    /\ resp.op = "list" /\ resp.args.parent_id = NULL /\ resp.status = 200
    /\ \E c \in DOMAIN pages :
          /\ Visible(resp.caller) = {c}
          /\ pages[c].user_id # resp.caller
          /\ pages[c].parent_id \in DOMAIN pages
          /\ pages[pages[c].parent_id].user_id = pages[c].user_id

\* a node of the result and all below it: a visible page, whose children
\* are the visible pages with that parent, each once
RECURSIVE NodeOK(_, _)
NodeOK(u, node) ==
    /\ node.id \in Visible(u)
    /\ NodeIds(node.children) =
           {p \in Visible(u) : pages[p].parent_id = node.id}
    /\ NoRepeat(node.children)
    /\ \A i \in 1..Len(node.children) : NodeOK(u, node.children[i])

\* C10: every node of the result of list_pages, with or without parent_id,
\* is a page of the caller's visible set, and its children are exactly the
\* visible pages whose parent_id is the node's id; a child that is stored
\* but not visible is left out and the request still succeeds.
C10_VisibleNodesOnly ==
    (resp.op = "list" /\ resp.status = 200) =>
        LET r == list_pages(resp.caller, resp.args.parent_id)
        IN  \A i \in 1..Len(r.body) : NodeOK(resp.caller, r.body[i])

\* the list succeeded with a node that has a stored child the caller does
\* not see
C10_Witness ==
    /\ resp.op = "list" /\ resp.status = 200
    /\ LET r == list_pages(resp.caller, resp.args.parent_id)
       IN  \E i \in 1..Len(r.body) :
              \E c \in DOMAIN pages :
                 /\ pages[c].parent_id = r.body[i].id
                 /\ c \notin Visible(resp.caller)


\* node x comes before node y in the order (case-folded title, id)
NodeBefore(x, y) ==
    LET kx == CaseFold(x.title)
        ky == CaseFold(y.title)
    IN  StrLess(kx, ky) \/ (kx = ky /\ x.id < y.id)

\* a list of nodes, and every children array below it, is in that order
RECURSIVE SortedNodes(_)
SortedNodes(nodes) ==
    /\ \A i, j \in 1..Len(nodes) : i < j => NodeBefore(nodes[i], nodes[j])
    /\ \A i \in 1..Len(nodes) : SortedNodes(nodes[i].children)

\* C11: in the result of list_pages the list returned and every children
\* array in it are sorted ascending by (case-folded title, id); siblings
\* titled "a" and "B" come with "a" first.
C11_SortedByFoldedTitle ==
    (resp.op = "list" /\ resp.status = 200) =>
        SortedNodes(list_pages(resp.caller, resp.args.parent_id).body)

\* a node was listed with two children, the one titled "a" before the one
\* titled "B" although "B" was created first
C11_Witness ==
    /\ resp.op = "list" /\ resp.status = 200
    /\ LET body == list_pages(resp.caller, resp.args.parent_id).body
       IN  \E i \in 1..Len(body) :
              /\ Len(body[i].children) = 2
              /\ body[i].children[1].title = <<97>>
              /\ body[i].children[2].title = <<66>>
              /\ body[i].children[2].id < body[i].children[1].id


\* the sharing fields of a node and of all nodes below it, for caller u
RECURSIVE MetadataOK(_, _)
MetadataOK(u, node) ==
    /\ IF pages[node.id].user_id = u
       THEN /\ node.is_shared = FALSE
            /\ node.permission = "null"
            /\ node.owner_email = <<>>
       ELSE /\ node.is_shared = TRUE
            /\ \E s \in shares :
                  /\ s.page_id = node.id /\ s.shared_with_user_id = u
                  /\ node.permission = s.permission_level
            /\ node.owner_email = users[pages[node.id].user_id].email
            /\ node.owner_email # <<>>
    /\ \A i \in 1..Len(node.children) : MetadataOK(u, node.children[i])

\* C12: in the result of list_pages a node of a page the caller owns has
\* is_shared false, permission null and owner_email null; every other node
\* has is_shared true, the level of the caller's grant on the page as it is
\* stored now, and the email of the page's owner.
C12_SharingMetadata ==
    (resp.op = "list" /\ resp.status = 200) =>
        LET body == list_pages(resp.caller, resp.args.parent_id).body
        IN  \A i \in 1..Len(body) : MetadataOK(resp.caller, body[i])

\* the caller listed a page of their own next to a page shared with them at
\* level edit
C12_Witness ==
    /\ resp.op = "list" /\ resp.status = 200
    /\ LET body == list_pages(resp.caller, resp.args.parent_id).body
       IN  \E i, j \in 1..Len(body) :
              /\ body[i].user_id = resp.caller /\ ~ body[i].is_shared
              /\ body[j].user_id # resp.caller /\ body[j].is_shared
              /\ body[j].permission = "edit"


\* C13: list_pages with parent_id X answers not-found unless X is in the
\* caller's visible set, also when X is stored but neither owned by nor
\* shared with the caller; otherwise it returns exactly the visible pages
\* whose parent_id is X, each once, each with its visible subtree.
C13_ListChildren ==
    (resp.op = "list" /\ resp.args.parent_id # NULL) =>
        LET u == resp.caller
            X == resp.args.parent_id
            r == list_pages(u, X)
        IN  /\ r.status = resp.status /\ r.detail = resp.detail
            /\ IF X \notin Visible(u)
               THEN r.status = 404 /\ r.detail = "Parent page not found"
               ELSE /\ r.status = 200
                    /\ NodeIds(r.body) =
                           {p \in Visible(u) : pages[p].parent_id = X}
                    /\ NoRepeat(r.body)
                    /\ \A i \in 1..Len(r.body) : NodeOK(u, r.body[i])

\* a grantee listed the children of a page shared with them and got the
\* child that is shared with them too
C13_Witness ==
    /\ resp.op = "list" /\ resp.status = 200
    /\ resp.args.parent_id \in DOMAIN pages
    /\ pages[resp.args.parent_id].user_id # resp.caller
    /\ LET body == list_pages(resp.caller, resp.args.parent_id).body
       IN  /\ Len(body) = 1
           /\ body[1].is_shared
           /\ body[1].parent_id = resp.args.parent_id


\* a create request that names a parent the caller does not own
CreateUnderForeignParent(r) ==
    /\ r.op = "create"
    /\ r.args.parent_id # NULL
    /\ ~ (/\ r.args.parent_id \in DOMAIN pages
          /\ pages[r.args.parent_id].user_id = r.caller)

\* C14: a create request whose title is not empty after trimming and whose
\* parent_id names no page, or a page the caller does not own (a page the
\* caller holds an edit grant on included), is answered not-found; with a
\* title that is empty after trimming it is answered validation; in both
\* cases no page is created.
C14_CreateNeedsOwnedParent ==
    [][CreateUnderForeignParent(resp') =>
         /\ pages' = pages /\ nextPage' = nextPage
         /\ IF Strip(resp'.args.title) # <<>>
            THEN resp'.status = 404 /\ resp'.detail = "Parent page not found"
            ELSE resp'.status = 422]_vars

\* C14 as stated: every create request naming a parent the caller does not
\* own is answered not-found.
C14_Original ==
    [][CreateUnderForeignParent(resp') =>
         (resp'.status = 404 /\ pages' = pages)]_vars

\* a user holding an edit grant on a page asked for a child under it and
\* was answered not-found
C14_Witness ==
    /\ resp.op = "create" /\ resp.status = 404
    /\ check_page_access(resp.args.parent_id, resp.caller) = "edit"


\* an update request on a stored page, with what it asks for
BlankTitle(upd) ==
    upd.has_title /\ (upd.title_null \/ Strip(upd.title) = <<>>)

\* the page after its title and content were set as the request asks
Edited(page, upd) ==
    [page EXCEPT !.title = IF upd.has_title THEN Strip(upd.title) ELSE @,
                 !.content = IF upd.has_content THEN upd.content ELSE @]

\* the first two parts of C15 (they hold as stated): the owner's and an
\* editor's update of a title that is not blank and of a content is
\* accepted and stored, and every update of a view_only grantee is refused
\* as forbidden and changes nothing
EditorsEditViewersDoNot(r) ==
    LET P == r.args.page_id
        upd == r.args.updates
        acc == check_page_access(P, r.caller)
    IN  /\ (acc \in {"owner", "edit"} /\ ~ upd.has_parent /\ ~ BlankTitle(upd)) =>
              /\ r.status = 200
              /\ pages' = [pages EXCEPT ![P] = Edited(pages[P], upd)]
              /\ shares' = shares
        /\ acc = "view_only" =>
              /\ r.status = 403
              /\ pages' = pages /\ shares' = shares

\* C15: an update of title and content by the page's owner or by a holder
\* of an edit grant is accepted and stored (the title not being blank); every
\* update by a holder of a view_only grant is answered forbidden; an update
\* that carries parent_id, null or not, sent by a holder of an edit grant
\* is answered forbidden, or validation when it also carries a blank title,
\* and sent by a caller without access is answered not-found; the refused
\* updates change nothing.
C15_UpdatePermissions ==
    [][(resp'.op = "update" /\ resp'.args.page_id \in DOMAIN pages) =>
         LET P == resp'.args.page_id
             upd == resp'.args.updates
             acc == check_page_access(P, resp'.caller)
         IN  /\ EditorsEditViewersDoNot(resp')
             /\ (upd.has_parent /\ acc = "edit") =>
                   /\ pages' = pages /\ shares' = shares
                   /\ IF BlankTitle(upd)
                      THEN resp'.status = 422
                      ELSE /\ resp'.status = 403
                           /\ resp'.detail =
                                 "Only page owner can change page hierarchy"
             /\ (upd.has_parent /\ acc = "absent") =>
                   /\ resp'.status = 404
                   /\ pages' = pages /\ shares' = shares]_vars

\* C15 as stated: every update that carries parent_id and is sent by a
\* caller who is not the owner is answered forbidden.
C15_Original ==
    [][(resp'.op = "update" /\ resp'.args.page_id \in DOMAIN pages) =>
         /\ EditorsEditViewersDoNot(resp')
         /\ (resp'.args.updates.has_parent
               /\ pages[resp'.args.page_id].user_id # resp'.caller) =>
                  resp'.status = 403]_vars

\* a holder of an edit grant changed the title and the content of a page
\* of another user
C15_Witness ==
    /\ resp.op = "update" /\ resp.status = 200
    /\ resp.args.page_id \in DOMAIN pages
    /\ check_page_access(resp.args.page_id, resp.caller) = "edit"
    /\ resp.args.updates.has_title /\ resp.args.updates.has_content
    /\ pages[resp.args.page_id].title = <<66>>
    /\ pages[resp.args.page_id].content = "c"


\* the ids of all nodes of a forest
RECURSIVE AllNodeIds(_)
AllNodeIds(nodes) ==
    IF Len(nodes) = 0 THEN {}
    ELSE {nodes[1].id} \cup AllNodeIds(nodes[1].children)
                       \cup AllNodeIds(Tail(nodes))

\* the forest list_pages returns to user u
Forest(u) == list_pages(u, NULL).body

\* C16: a revoke by a caller who does not own the page is answered
\* forbidden; by the owner, where no grant for (page, target) is stored, it
\* is answered not-found; in both cases nothing changes. Otherwise exactly
\* that grant is deleted, after which check_page_access(page, target) is
\* absent and the page is not in the target's forest; a grant for (page,
\* target) comes back only with a share request of the owner for them.
C16_Revoke ==
    /\ [][resp'.op = "revoke" =>
            LET p == resp'.args.page_id
                t == resp'.args.shared_with_user_id
                owns == p \in DOMAIN pages /\ pages[p].user_id = resp'.caller
                g == GrantsFor(shares, p, t)
            IN  /\ pages' = pages
                /\ ~ owns => (resp'.status = 403 /\ shares' = shares)
                /\ (owns /\ g = {}) => (resp'.status = 404 /\ shares' = shares)
                /\ (owns /\ g # {}) => (resp'.status = 204 /\ shares' = shares \ g)]_vars
    /\ []((resp.op = "revoke" /\ resp.status = 204) =>
            /\ check_page_access(resp.args.page_id,
                                 resp.args.shared_with_user_id) = "absent"
            /\ resp.args.page_id \notin
                   AllNodeIds(Forest(resp.args.shared_with_user_id)))
    /\ [][\A p \in DOMAIN pages, t \in DOMAIN users :
            (GrantsFor(shares, p, t) = {} /\ GrantsFor(shares', p, t) # {}) =>
                /\ resp'.op = "share" /\ resp'.status = 200
                /\ resp'.caller = pages[p].user_id
                /\ resp'.args.page_id = p
                /\ resp'.args.shared_with_user_id = t]_vars

\* the owner revoked the grant on a page that is still stored, from a user
\* who still holds a grant on another page
C16_Witness ==
    /\ resp.op = "revoke" /\ resp.status = 204
    /\ resp.args.page_id \in DOMAIN pages
    /\ \E s \in shares : s.shared_with_user_id = resp.args.shared_with_user_id
    /\ nextShare = 3


\* C17: no stored page is its own parent, after every create and every
\* update; an update of a stored page that names the page itself as
\* parent_id leaves every page as it was, and sent by the page's owner,
\* the one caller who may set parent_id, it is answered validation.
C17_NoSelfParent ==
    /\ [](\A p \in DOMAIN pages : pages[p].parent_id # p)
    /\ [][(/\ resp'.op = "update"
           /\ resp'.args.page_id \in DOMAIN pages
           /\ resp'.args.updates.has_parent
           /\ resp'.args.updates.parent_id = resp'.args.page_id) =>
            /\ pages' = pages
            /\ resp'.status \in {403, 404, 422}
            /\ pages[resp'.args.page_id].user_id = resp'.caller =>
                  resp'.status = 422]_vars

\* the owner named the page itself as its parent and was answered that a
\* page cannot be its own parent
C17_Witness ==
    /\ resp.op = "update" /\ resp.status = 422
    /\ resp.detail = "Page cannot be its own parent"
    /\ resp.args.updates.parent_id = resp.args.page_id
    /\ resp.args.page_id \in DOMAIN pages
    /\ pages[resp.args.page_id].user_id = resp.caller


\* C18: with registrations served one after another, a registration that
\* succeeds in a store without users stores the user with role admin, and
\* one that succeeds in a store with at least one user stores the user with
\* role user.
C18_FirstUserAdmin ==
    [][(resp'.op = "register" /\ resp'.status = 201) =>
         /\ DOMAIN users' = DOMAIN users \cup {nextUser}
         /\ nextUser \notin DOMAIN users
         /\ users'[nextUser].role =
                IF DOMAIN users = {} THEN "admin" ELSE "user"
         /\ \A u \in DOMAIN users : users'[u] = users[u]]_vars

\* the second registration succeeded: the first user is admin, the second
\* is user
C18_Witness ==
    /\ resp.op = "register" /\ resp.status = 201
    /\ DOMAIN users = {1, 2}
    /\ users[1].role = "admin" /\ users[2].role = "user"


\* the users with role admin
Admins == {u \in DOMAIN users : users[u].role = "admin"}

\* C19: a delete_user request whose target is the caller is refused: bad
\* request for a calling admin, however many admins there are, forbidden
\* for a caller who is not admin; a delete_user request whose target is the
\* only user with role admin is refused too; in both cases no user, page or
\* grant is removed.
C19_DeleteUserRefusals ==
    [][resp'.op = "delete_user" =>
         LET t == resp'.args.user_id
             c == resp'.caller
         IN  /\ t = c =>
                  /\ users' = users /\ pages' = pages /\ shares' = shares
                  /\ resp'.status = IF c \in Admins THEN 400 ELSE 403
             /\ Admins = {t} =>
                  /\ users' = users /\ pages' = pages /\ shares' = shares
                  /\ resp'.status \in {400, 403}]_vars

\* an admin asked to delete their own account while another admin exists
\* and was refused
C19_Witness ==
    /\ resp.op = "delete_user" /\ resp.status = 400
    /\ resp.args.user_id = resp.caller
    /\ Cardinality(Admins) = 2

\* the operations that end in a commit of new or changed rows
CommitOps == {"register", "create", "update", "share"}

\* C20: a commit of register, create_page, update_page or share_page that
\* the store refuses (unique email or username, unique (page, shared-with),
\* foreign key, hierarchy-cycle trigger) is answered as a conflict: no such
\* request is answered with the raw storage error.
C20_Original ==
    resp.op \in CommitOps => resp.status # 500

\* the owner of pages p and q, q a child of p, asked to move p under q: the
\* hierarchy trigger refused the UPDATE, the answer is the raw storage
\* error and p is where it was
C20_Witness ==
    /\ resp.op = "update" /\ resp.status = 500
    /\ resp.args.updates.has_parent
    /\ LET p == resp.args.page_id
           q == resp.args.updates.parent_id
       IN  /\ p \in DOMAIN pages /\ q \in DOMAIN pages
           /\ pages[q].parent_id = p
           /\ pages[p].parent_id # q
           /\ pages[p].user_id = resp.caller
           /\ pages[q].user_id = resp.caller

\* C21: a delete_user request that is carried out removes the user, every
\* page the user owns together with its descendants, and every grant whose
\* owner or shared-with user is the deleted user; afterwards no page and no
\* grant refers to the deleted user, and the pages and grants of the other
\* users are all still there, unchanged.
C21_DeleteUserCascade ==
    [][(resp'.op = "delete_user" /\ resp'.status = 204) =>
         LET t == resp'.args.user_id
             kept == {p \in DOMAIN pages : pages[p].user_id # t}
         IN  /\ users' = Without(users, {t})
             /\ \A p \in DOMAIN pages' : pages'[p].user_id # t
             /\ \A s \in shares' : /\ s.owner_id # t
                                   /\ s.shared_with_user_id # t
                                   /\ s.page_id \in DOMAIN pages'
             /\ \A p \in DOMAIN pages :
                    pages[p].user_id = t =>
                        (Descendants(p) \cup {p}) \cap DOMAIN pages' = {}
             /\ pages' = Without(pages, (DOMAIN pages) \ kept)
             /\ shares' = {s \in shares : /\ s.owner_id # t
                                          /\ s.shared_with_user_id # t}]_vars

\* an admin deleted a user after two pages and one grant had been stored:
\* one page, of a user who is still there, remains, and the grant, in which
\* a deleted user took part, is gone
C21_Witness ==
    /\ resp.op = "delete_user" /\ resp.status = 204
    /\ nextPage = 3 /\ nextShare = 2
    /\ Cardinality(DOMAIN pages) = 1
    /\ shares = {}
    /\ \A p \in DOMAIN pages : pages[p].user_id \in DOMAIN users

\* C22: the children of a page, as get_child_pages returns them, are in
\* ascending order of case-folded title, then id, which is the order
\* list_pages gives those siblings.
C22_Original ==
    (resp.op = "children" /\ resp.status = 200) =>
        child_rows(resp.args.page_id, resp.args.collation)
            = SortPages(get_child_pages(resp.args.page_id))

\* on a database with a linguistic collation, a page has the children "A"
\* and "a", "A" with the lower id: the query returns "a" first, the tree
\* listing "A"
C22_Witness ==
    /\ resp.op = "children" /\ resp.status = 200
    /\ resp.args.collation = "linguistic"
    /\ LET rows == child_rows(resp.args.page_id, resp.args.collation)
           listed == SortPages(get_child_pages(resp.args.page_id))
       IN  /\ Len(rows) = 2
           /\ pages[rows[1]].title = <<97>> /\ pages[rows[2]].title = <<65>>
           /\ rows[2] < rows[1]
           /\ listed = <<rows[2], rows[1]>>

\* C23: after any sequence of accepted creates and reparenting updates, the
\* parent chain of every stored page ends at a root within the trigger's
\* depth bound (fewer than max_depth ancestors): the trigger's walk, started
\* from any stored page, neither meets the page again nor runs into the
\* bound, so no page's own next update is refused for its depth.
C23_Original ==
    \A p \in DOMAIN pages : HierarchyWalk(pages, p, pages[p].parent_id, 0) = "ok"

\* the last page of the second chain was never moved itself; after the
\* first page of its chain was moved under the first chain it has max_depth
\* ancestors, and an update of its title alone was refused by the trigger
C23_Witness ==
    /\ resp.op = "update" /\ resp.status = 500
    /\ ~ resp.args.updates.has_parent /\ resp.args.updates.has_title
    /\ resp.args.page_id = MaxDeepPages
    /\ MaxDeepPages \in DOMAIN pages
    /\ pages[MaxDeepPages].parent_id = MaxDeepPages - 1
    /\ pages[DeepSplit].parent_id = DeepSplit - 1
    /\ HierarchyWalk(pages, MaxDeepPages, pages[MaxDeepPages].parent_id, 0) = "depth"

\* C24: also when reparenting updates of one owner run as transactions that
\* overlap (each trigger run reading the rows committed before the other's
\* write), no committed state has a page whose parent chain leads back to
\* the page.
C24_Original ==
    \A p \in DOMAIN pages :
        ~ ReachedUpward(p, pages[p].parent_id, MaxMovePages)

\* two updates by the owner of pages 1 and 2 overlapped, one moving page 1
\* under page 2 and one moving page 2 under page 1; both were accepted and
\* both have committed
C24_Witness ==
    /\ resp.op = "update" /\ resp.status = 200
    /\ \A k \in Sessions : calls[k].pc = "idle"
    /\ DOMAIN pages = {1, 2}
    /\ pages[1].parent_id = 2 /\ pages[2].parent_id = 1
    /\ pages[1].user_id = pages[2].user_id

\* C25: once the first user exists, every reachable state has at least one
\* user with role admin, also when delete_user calls of different admins
\* overlap between their count of admins and their commit.
C25_Original ==
    nextUser > 1 => Admins # {}

\* the last two admins each asked to delete the other, both calls counted
\* two admins, and both have committed: no user is left
C25_Witness ==
    /\ resp.op = "delete_user" /\ resp.status = 204
    /\ resp.args.user_id # resp.caller
    /\ \A k \in Sessions : calls[k].pc = "idle"
    /\ nextUser > 2
    /\ DOMAIN users = {}

\* the pages a children response carries
ChildrenBody == get_page_children_endpoint(resp.caller, resp.args.page_id).body

\* C26: the children operation on a page, answered to a user with view
\* access to that page, returns only pages of that user's visible set (owned
\* by the user or shared with the user): a child that is not shared with the
\* user is not disclosed.
C26_Original ==
    (resp.op = "children" /\ resp.status = 200) =>
        \A r \in ChildrenBody : r.id \in Visible(resp.caller)

\* a user holding a view grant on a page asked for its children and was
\* given a child that the user does not own and that is not shared with them
C26_Witness ==
    /\ resp.op = "children" /\ resp.status = 200
    /\ check_page_access(resp.args.page_id, resp.caller) = "view_only"
    /\ \E r \in ChildrenBody :
          /\ r.user_id # resp.caller
          /\ check_page_access(r.id, resp.caller) = "absent"

\* every page with a parent has its parent's owner
SameOwnerAsParent ==
    \A p \in DOMAIN pages :
        pages[p].parent_id # NULL =>
            /\ pages[p].parent_id \in DOMAIN pages
            /\ pages[pages[p].parent_id].user_id = pages[p].user_id

\* C27: in every reachable state a page with a non-null parent_id has the
\* owner of its parent page, so every page below a page has that page's
\* owner, and a delete_page request removes only pages owned by the caller,
\* who is the owner of the page deleted.
C27_SubtreeOneOwner ==
    /\ [](/\ SameOwnerAsParent
          /\ \A p \in DOMAIN pages : \A d \in Descendants(p) :
                pages[d].user_id = pages[p].user_id)
    /\ [][resp'.op = "delete" =>
            \A p \in (DOMAIN pages) \ (DOMAIN pages') :
                pages[p].user_id = resp'.caller]_vars

\* an owner deleted a page together with a page below it while a page of
\* another user is stored: that page is still there
C27_Witness ==
    /\ resp.op = "delete" /\ resp.status = 204
    /\ nextPage = 4
    /\ Cardinality(DOMAIN pages) = 1
    /\ \A p \in DOMAIN pages : pages[p].user_id # resp.caller

\* C28: an update_page request that fails (blank title, parent_id sent by a
\* caller who is not the owner, self-parent, parent not owned by the caller,
\* refusal by the trigger, or no access to the page) leaves the title, the
\* content and the parent_id of every stored page as they were, also when
\* the handler had assigned an earlier field of the request before the
\* failing check.
C28_FailedUpdateChangesNothing ==
    [][(resp'.op = "update" /\ resp'.status # 200) =>
          /\ pages' = pages
          /\ shares' = shares]_vars

\* an editor sent the new title "B" together with a parent_id and was
\* refused after the title had been assigned: the stored title is not "B"
C28_Witness ==
    /\ resp.op = "update" /\ resp.status = 403
    /\ resp.args.updates.has_title /\ resp.args.updates.has_parent
    /\ resp.args.updates.title = <<66>>
    /\ check_page_access(resp.args.page_id, resp.caller) = "edit"
    /\ pages[resp.args.page_id].title # <<66>>

\* the number of nodes of a forest, a page counted as often as it appears
RECURSIVE NodeCount(_)
NodeCount(nodes) ==
    IF Len(nodes) = 0 THEN 0
    ELSE 1 + NodeCount(nodes[1].children) + NodeCount(Tail(nodes))

\* no page of u's visible set lies on a parent cycle
VisibleAcyclic(u) == \A p \in Visible(u) : ~ OnCycle(p)

\* C29: when the caller's visible set has no parent cycle, list_pages
\* without parent_id returns a forest in which every page of the visible set
\* appears exactly once, as a root or below exactly one root, and in which
\* no other page appears.
C29_ForestCoversVisibleOnce ==
    (resp.op = "list" /\ resp.args.parent_id = NULL /\ VisibleAcyclic(resp.caller)) =>
        /\ resp.status = 200
        /\ AllNodeIds(Forest(resp.caller)) = Visible(resp.caller)
        /\ NodeCount(Forest(resp.caller)) = Cardinality(Visible(resp.caller))

\* the caller listed a forest of two trees over three visible pages, one
\* tree with a page below its root, one of the roots a page shared with the
\* caller
C29_Witness ==
    /\ resp.op = "list" /\ resp.args.parent_id = NULL /\ resp.status = 200
    /\ Len(Forest(resp.caller)) = 2
    /\ \E i \in 1..2 : Len(Forest(resp.caller)[i].children) = 1
    /\ Cardinality(Visible(resp.caller)) = 3
    /\ \E i \in 1..2 : Forest(resp.caller)[i].is_shared

\* C30: in every reachable state each grant's owner_id is the user_id of
\* the page the grant refers to and its shared_with_user_id is another
\* user; hence no page with a grant for a user is owned by that user, and
\* the shared-with-me query of list_pages returns no page the requesting
\* user owns.
C30_GrantOwnerIsPageOwner ==
    /\ \A s \in shares :
          /\ s.page_id \in DOMAIN pages
          /\ s.owner_id = pages[s.page_id].user_id
          /\ s.shared_with_user_id # s.owner_id
    /\ \A u \in UserIdInputs :
          /\ {s.page_id : s \in {x \in shares : x.shared_with_user_id = u}}
                 \cap owned_pages(u) = {}
          /\ \A r \in shared_rows(u) : pages[r.page].user_id # u

\* a grant is stored and its owner, asking to share the same page with
\* themself, was refused
C30_Witness ==
    /\ resp.op = "share" /\ resp.status = 422
    /\ resp.args.shared_with_user_id = resp.caller
    /\ \E s \in shares : /\ s.page_id = resp.args.page_id
                         /\ s.owner_id = resp.caller

====
